---------------------------- MODULE Spec2Model ----------------------------
(***************************************************************************)
(* A model of doc-harvester: the WebTree (pkg/tree, pkg/node), the         *)
(* XMLStorage document store with its auto-save goroutine (pkg/storage),   *)
(* and the HarvesterContext orchestration (pkg/harvester, cmd).            *)
(*                                                                         *)
(* A URL string is a sequence of one-character strings.  The characters    *)
(* "X" and "Y" each stand for a whole "scheme://host" prefix, "k" stands   *)
(* for the topic keyword "prompt-engineering", "%" stands for an invalid   *)
(* percent escape (the one way url.Parse fails here).  Query strings and   *)
(* valid percent escapes are not modelled.                                 *)
(*                                                                         *)
(* A *WebNode pointer is an index into the arena `nodes`; 0 is nil.        *)
(***************************************************************************)
EXTENDS Integers, Sequences, FiniteSets, TLC

VARIABLES
    \* ---- pkg/tree, pkg/node ----
    nodes,      \* arena of WebNode records; nodes[1] is WebTree.RootNode
    visited,    \* WebTree.VisitedURLs (the keys mapped to true)
    maxDepth,   \* WebTree.MaxDepth
    ret,        \* the last WebTree.AddURL call: its results node and err, and
                \* repeat: whether its URL's canonical form had been given before
    added       \* history: canonical forms of the parsable URLs given to AddURL

VARIABLES
    \* ---- pkg/storage ----
    docMeta,    \* XMLDocument.RootURL and CreatedAt
    pages,      \* XMLDocument.Pages
    pagesByURL, \* XMLDocument.pagesByURL: URL string -> index into pages
    mutex,      \* XMLDocument.mutex: "free", or the thread holding it
    file,       \* what XMLStorage.FilePath holds on disk (state, doc), and
                \* history: what it held when the store was created (prior)
    tickC,      \* ticker.C holds an undelivered tick (a channel of capacity 1)
    ticker,     \* the auto-save ticker: "running" or "stopped"
    pc,         \* where each thread is: pc["main"], pc["bg"] (autoSaveLoop)
    buf,        \* xmlData of each thread's SaveToFile call
    err,        \* the error each thread's last SaveToFile returned
    arg,        \* the running SaveNodeContent call: webNode, content, page, idx
    clock,      \* time.Now(), a logical clock that ticks at every page built
    calls,      \* history: the page each SaveNodeContent call built, in call order
    committed   \* history: the values of pages between complete SaveNodeContent calls

VARIABLES
    \* ---- pkg/harvester, cmd ----
    hc,         \* HarvesterContext: RootURL, DownloadAll, and the running
                \* DownloadWebsite: where it is (pc), how the root page's
                \* fetch and extraction went (rootPage), the root page's
                \* links, the loop index i, what Download returned (err)
    printedURLs, \* HarvesterContext.PrintedURLs
    outcome,    \* what DownloadWebsite printed last: "none", "failed", "success"
    fetched,    \* history: the URL strings given to Crawler.FetchPage, in order
    results     \* history: what became of each processed link, in order
                \* (of each IsAllowedDepth call, where only those are made)

treeVars == <<nodes, visited, maxDepth, ret, added>>

runVars == <<hc, printedURLs, outcome, fetched, results>>

storeVars == <<docMeta, pages, pagesByURL, mutex, file, tickC, ticker, pc, buf,
               err, arg, clock, calls, committed>>

vars == <<treeVars, storeVars, runVars>>

-----------------------------------------------------------------------------
(* Bounds *)

\* most WebNodes ever allocated (the root included)
MaxNodes == 3

\* most SaveNodeContent calls of one run of the store
MaxUpserts == 2

\* most links on the root page
MaxLinks == 2

\* most IsAllowedDepth calls
MaxCalls == 3

-----------------------------------------------------------------------------
(* Strings *)

Slash == "/"
Hash == "#"
BadEscape == "%"
\* two "scheme://host" prefixes
X == "X"
Y == "Y"
HostChars == {X, Y}

RECURSIVE TrimRight(_, _)
\* strings.TrimRight(s, c) for a one-character cutset
TrimRight(s, c) ==
    IF Len(s) > 0 /\ s[Len(s)] = c
    THEN TrimRight(SubSeq(s, 1, Len(s) - 1), c)
    ELSE s

\* strings.Index(s, c) for a one-character c, 1-based; 0 when absent
IndexOf(s, c) ==
    IF \E i \in 1..Len(s) : s[i] = c
    THEN CHOOSE i \in 1..Len(s) : s[i] = c /\ \A j \in 1..(i - 1) : s[j] # c
    ELSE 0

\* strings.LastIndex(s, c) for a one-character c, 1-based; 0 when absent
LastIndexOf(s, c) ==
    IF \E i \in 1..Len(s) : s[i] = c
    THEN CHOOSE i \in 1..Len(s) : s[i] = c /\ \A j \in (i + 1)..Len(s) : s[j] # c
    ELSE 0

\* strings.Contains(s, sub)
Contains(s, sub) ==
    \E i \in 0..(Len(s) - Len(sub)) : SubSeq(s, i + 1, i + Len(sub)) = sub

-----------------------------------------------------------------------------
(* net/url as the program uses it *)

\* url.Parse succeeds
ParseOK(s) == \A i \in 1..Len(s) : s[i] # BadEscape

\* url.Parse: the fragment is cut at the first "#", the host runs to the
\* first "/", the rest is the path
Parse(s) ==
    LET h    == IndexOf(s, Hash)
        rest == IF h = 0 THEN s ELSE SubSeq(s, 1, h - 1)
        frag == IF h = 0 THEN <<>> ELSE SubSeq(s, h + 1, Len(s))
        p    == IndexOf(rest, Slash)
        abs  == Len(rest) > 0 /\ rest[1] \in HostChars
    IN  [Host     |-> IF ~abs THEN <<>>
                      ELSE IF p = 0 THEN rest ELSE SubSeq(rest, 1, p - 1),
         Path     |-> IF ~abs THEN rest
                      ELSE IF p = 0 THEN <<>> ELSE SubSeq(rest, p, Len(rest)),
         Fragment |-> frag]

\* (*url.URL).String: an empty fragment writes no "#"
String(u) ==
    u.Host \o u.Path \o (IF u.Fragment = <<>> THEN <<>> ELSE <<Hash>> \o u.Fragment)

-----------------------------------------------------------------------------
(* pkg/node and pkg/tree *)

\* WebTree.normalizeURL: the dedup key
normalizeURL(u) ==
    String([u EXCEPT !.Fragment = <<>>, !.Path = TrimRight(u.Path, Slash)])

\* NewWebNode that copies the parent's depth
NewWebNodeSameDepth(ns, urlStr, parent) ==
    [URL      |-> Parse(urlStr),
     Title    |-> "",
     Children |-> <<>>,
     Parent   |-> parent,
     Depth    |-> IF parent # 0 THEN ns[parent].Depth ELSE 0]

\* node.NewWebNode in arena ns, for a urlStr that parses; parent 0 is nil
NewWebNode(ns, urlStr, parent) ==
    [URL      |-> Parse(urlStr),
     Title    |-> "",
     Children |-> <<>>,
     Parent   |-> parent,
     Depth    |-> IF parent # 0 THEN ns[parent].Depth + 1 ELSE 0]

\* AddChild that puts the new child first
AddChildFirst(ns, n, child) ==
    [ns EXCEPT ![n].Children = <<child>> \o @]

\* WebNode.AddChild on node n of arena ns
AddChild(ns, n, child) ==
    [ns EXCEPT ![n].Children = Append(@, child)]

\* AddURL that forgets to mark the key visited
AddURLNoMark(t, urlStr, parentNode) ==
    IF ~ParseOK(urlStr)
    THEN [nodes |-> t.nodes, visited |-> t.visited, node |-> 0, err |-> TRUE]
    ELSE IF normalizeURL(Parse(urlStr)) \in t.visited
    THEN [nodes |-> t.nodes, visited |-> t.visited, node |-> 0, err |-> FALSE]
    ELSE LET new == Len(t.nodes) + 1
             ns  == Append(t.nodes, NewWebNode(t.nodes, urlStr, parentNode))
         IN  [nodes   |-> IF parentNode # 0 THEN AddChild(ns, parentNode, new) ELSE ns,
              visited |-> t.visited,
              node    |-> new,
              err     |-> FALSE]

\* AddURL that enters the string it could not parse in the visited set
AddURLMarkUnparsed(t, urlStr, parentNode) ==
    IF ~ParseOK(urlStr)
    THEN [nodes |-> t.nodes, visited |-> t.visited \cup {urlStr}, node |-> 0,
          err |-> TRUE]
    ELSE LET urlKey == normalizeURL(Parse(urlStr))
         IN  IF urlKey \in t.visited
             THEN [nodes |-> t.nodes, visited |-> t.visited, node |-> 0, err |-> FALSE]
             ELSE LET new == Len(t.nodes) + 1
                      ns  == Append(t.nodes, NewWebNode(t.nodes, urlStr, parentNode))
                  IN  [nodes   |-> IF parentNode # 0
                                   THEN AddChild(ns, parentNode, new)
                                   ELSE ns,
                       visited |-> t.visited \cup {urlKey},
                       node    |-> new,
                       err     |-> FALSE]

\* WebTree.AddURL on the tree t = [nodes, visited]: the tree after the call
\* and the call's results (node 0 is a nil node)
AddURLOn(t, urlStr, parentNode) ==
    IF ~ParseOK(urlStr)
    THEN [nodes |-> t.nodes, visited |-> t.visited, node |-> 0, err |-> TRUE]
    ELSE LET urlKey == normalizeURL(Parse(urlStr))
         IN  IF urlKey \in t.visited
             THEN [nodes |-> t.nodes, visited |-> t.visited, node |-> 0, err |-> FALSE]
             ELSE LET new == Len(t.nodes) + 1
                      ns  == Append(t.nodes, NewWebNode(t.nodes, urlStr, parentNode))
                  IN  [nodes   |-> IF parentNode # 0
                                   THEN AddChild(ns, parentNode, new)
                                   ELSE ns,
                       visited |-> t.visited \cup {urlKey},
                       node    |-> new,
                       err     |-> FALSE]

\* WebTree.AddURL on the current tree
AddURL(urlStr, parentNode) ==
    AddURLOn([nodes |-> nodes, visited |-> visited], urlStr, parentNode)

\* the canonical form of a parsable URL string: fragment dropped, trailing
\* path slashes stripped
Canonical(urlStr) ==
    LET u == Parse(urlStr)
    IN  u.Host \o TrimRight(u.Path, Slash)

\* IsAllowedDepth with the limit itself excluded
IsAllowedDepthBelowLimit(depth) == maxDepth <= 0 \/ depth < maxDepth

\* WebTree.IsAllowedDepth(depth)
IsAllowedDepth(depth) == maxDepth <= 0 \/ depth <= maxDepth

RECURSIVE Subtree(_)
\* the nodes reached from n through Children
Subtree(n) ==
    {n} \cup UNION {Subtree(nodes[n].Children[i]) : i \in 1..Len(nodes[n].Children)}

\* the nodes reachable from WebTree.RootNode
Reachable == Subtree(1)

-----------------------------------------------------------------------------
(* pkg/storage: XMLStorage *)

Threads == {"main", "bg"}

\* cleaned page contents the extractor may return
Contents == {"c1", "c2"}

NoPage == [URL |-> <<>>, Title |-> "", Path |-> <<>>, LastFetched |-> 0,
           Content |-> "", Links |-> <<>>]

NoArg == [node |-> 0, content |-> "", page |-> NoPage, idx |-> 0]

NoData == [RootURL |-> <<>>, CreatedAt |-> 0, Pages |-> <<>>]

\* no file at FilePath
Absent == [state |-> "absent", doc |-> NoData, prior |-> NoData]

\* the variables of the store in a run that has no store
StoreUnused ==
    /\ docMeta = [RootURL |-> <<>>, CreatedAt |-> 0]
    /\ pages = <<>>
    /\ pagesByURL = <<>>
    /\ mutex = "free"
    /\ file = Absent
    /\ tickC = FALSE
    /\ ticker = "stopped"
    /\ pc = [t \in Threads |-> "none"]
    /\ buf = [t \in Threads |-> NoData]
    /\ err = [t \in Threads |-> FALSE]
    /\ arg = NoArg
    /\ clock = 0
    /\ calls = <<>>
    /\ committed = {}

\* the variables of the orchestrator in a run that has none
RunUnused ==
    /\ hc = [RootURL |-> <<>>, DownloadAll |-> FALSE, pc |-> "none",
             rootPage |-> "none", links |-> <<>>, i |-> 0, err |-> "none"]
    /\ printedURLs = {}
    /\ outcome = "none"
    /\ fetched = <<>>
    /\ results = <<>>

\* sync.Mutex.Lock without mutual exclusion
LockNoWait(t) == mutex' = t

\* (*sync.Mutex).Lock by thread t: blocks while the mutex is held
Lock(t) == mutex = "free" /\ mutex' = t

\* a return path that skips the Unlock
UnlockForgotten(t) == mutex' = mutex

\* (*sync.Mutex).Unlock (deferred in both holders)
Unlock(t) == mutex' = "free"

\* xml.MarshalIndent that loses the last page
MarshalDropLast ==
    [RootURL   |-> docMeta.RootURL,
     CreatedAt |-> docMeta.CreatedAt,
     Pages     |-> IF pages = <<>> THEN <<>> ELSE SubSeq(pages, 1, Len(pages) - 1)]

\* xml.MarshalIndent(s.Document): the exported fields, pagesByURL left out
Marshal ==
    [RootURL |-> docMeta.RootURL, CreatedAt |-> docMeta.CreatedAt, Pages |-> pages]

\* the XMLPage SaveNodeContent builds for node n of arena ns
XMLPage(ns, n, content, now) ==
    [URL         |-> String(ns[n].URL),
     Title       |-> ns[n].Title,
     Path        |-> ns[n].URL.Path,
     LastFetched |-> now,
     Content     |-> content,
     Links       |-> [i \in 1..Len(ns[n].Children) |->
                        String(ns[ns[n].Children[i]].URL)]]

\* NewXMLStorage that resumes from the document the path holds
NewXMLStorageResume(rootURL) ==
    /\ docMeta = [RootURL |-> rootURL, CreatedAt |-> 0]
    /\ pages = file.doc.Pages
    /\ pagesByURL = [u \in {file.doc.Pages[i].URL : i \in 1..Len(file.doc.Pages)} |->
                       CHOOSE i \in 1..Len(file.doc.Pages) : file.doc.Pages[i].URL = u]
    /\ mutex = "free"
    /\ tickC = FALSE
    /\ ticker = "running"
    /\ pc = [t \in Threads |-> IF t = "bg" THEN "select" ELSE "idle"]
    /\ buf = [t \in Threads |-> NoData]
    /\ err = [t \in Threads |-> FALSE]
    /\ arg = NoArg
    /\ clock = 0
    /\ calls = <<>>
    /\ committed = {pages}

\* storage.NewXMLStorage(filePath, rootURL): an empty document whatever the
\* path holds, the auto-save goroutine started
NewXMLStorage(rootURL) ==
    /\ docMeta = [RootURL |-> rootURL, CreatedAt |-> 0]
    /\ pages = <<>>
    /\ pagesByURL = <<>>
    /\ mutex = "free"
    /\ tickC = FALSE
    /\ ticker = "running"
    /\ pc = [t \in Threads |-> IF t = "bg" THEN "select" ELSE "idle"]
    /\ buf = [t \in Threads |-> NoData]
    /\ err = [t \in Threads |-> FALSE]
    /\ arg = NoArg
    /\ clock = 0
    /\ calls = <<>>
    /\ committed = {<<>>}

\* ---- SaveToFile, by thread t ----

\* SaveToFile: s.Document.mutex.Lock()
SaveLock(t) ==
    /\ pc[t] = "s_lock"
    /\ Lock(t)
    /\ pc' = [pc EXCEPT ![t] = "s_marshal"]
    /\ UNCHANGED <<docMeta, pages, pagesByURL, file, tickC, ticker, buf, err,
                   arg, clock, calls, committed>>

\* SaveToFile: xml.MarshalIndent(s.Document) and the two headers
SaveMarshal(t) ==
    /\ pc[t] = "s_marshal"
    /\ buf' = [buf EXCEPT ![t] = Marshal]
    /\ pc' = [pc EXCEPT ![t] = "s_write"]
    /\ UNCHANGED <<docMeta, pages, pagesByURL, mutex, file, tickC, ticker, err,
                   arg, clock, calls, committed>>

\* SaveToFile: os.WriteFile, which may fail before touching the file or after
\* truncating it
SaveWrite(t) ==
    /\ pc[t] = "s_write"
    /\ \/ /\ file' = [file EXCEPT !.state = "written", !.doc = buf[t]]
          /\ err' = [err EXCEPT ![t] = FALSE]
       \/ /\ file' \in {file, [file EXCEPT !.state = "partial", !.doc = NoData]}
          /\ err' = [err EXCEPT ![t] = TRUE]
    /\ pc' = [pc EXCEPT ![t] = "s_unlock"]
    /\ UNCHANGED <<docMeta, pages, pagesByURL, mutex, tickC, ticker, buf,
                   arg, clock, calls, committed>>

\* an auto-save loop that returns when SaveToFile failed
SaveUnlockReturnOnError(t) ==
    /\ pc[t] = "s_unlock"
    /\ Unlock(t)
    /\ pc' = [pc EXCEPT ![t] = IF t = "bg"
                               THEN (IF err[t] THEN "returning" ELSE "select")
                               ELSE "done"]
    /\ UNCHANGED <<docMeta, pages, pagesByURL, file, tickC, ticker, buf, err,
                   arg, clock, calls, committed>>

\* SaveToFile returns: the deferred Unlock; the auto-save loop prints the
\* error and selects again, Cleanup prints the error and returns
SaveUnlock(t) ==
    /\ pc[t] = "s_unlock"
    /\ Unlock(t)
    /\ pc' = [pc EXCEPT ![t] = IF t = "bg" THEN "select" ELSE "done"]
    /\ UNCHANGED <<docMeta, pages, pagesByURL, file, tickC, ticker, buf, err,
                   arg, clock, calls, committed>>

SaveToFile(t) == SaveLock(t) \/ SaveMarshal(t) \/ SaveWrite(t) \/ SaveUnlock(t)

\* ---- autoSaveLoop ----

\* the runtime timer sends on ticker.C; a tick is dropped when one is pending
TimerFire ==
    /\ ticker = "running"
    /\ ~tickC
    /\ tickC' = TRUE
    /\ UNCHANGED <<docMeta, pages, pagesByURL, mutex, file, ticker, pc, buf, err,
                   arg, clock, calls, committed>>

\* autoSaveLoop: case <-ticker.C
LoopTick ==
    /\ pc["bg"] = "select"
    /\ tickC
    /\ tickC' = FALSE
    /\ pc' = [pc EXCEPT !["bg"] = "s_lock"]
    /\ UNCHANGED <<docMeta, pages, pagesByURL, mutex, file, ticker, buf, err,
                   arg, clock, calls, committed>>

\* the stop case taken as a Go break would be: out of the select, not the loop
LoopStopBreak ==
    /\ pc["main"] = "c_stop"
    /\ pc["bg"] = "select"
    /\ pc' = [pc EXCEPT !["main"] = "s_lock"]
    /\ UNCHANGED <<docMeta, pages, pagesByURL, mutex, file, tickC, ticker, buf,
                   err, arg, clock, calls, committed>>

\* StopAutoSave's send meets autoSaveLoop's case <-s.stopAutoSave (an
\* unbuffered channel): the send returns, the loop returns
LoopStop ==
    /\ pc["main"] = "c_stop"
    /\ pc["bg"] = "select"
    /\ pc' = [pc EXCEPT !["main"] = "s_lock", !["bg"] = "returning"]
    /\ UNCHANGED <<docMeta, pages, pagesByURL, mutex, file, tickC, ticker, buf,
                   err, arg, clock, calls, committed>>

\* autoSaveLoop returns: the deferred ticker.Stop()
LoopReturn ==
    /\ pc["bg"] = "returning"
    /\ ticker' = "stopped"
    /\ pc' = [pc EXCEPT !["bg"] = "exited"]
    /\ UNCHANGED <<docMeta, pages, pagesByURL, mutex, file, tickC, buf, err,
                   arg, clock, calls, committed>>

autoSaveLoop == LoopTick \/ SaveToFile("bg") \/ LoopStop \/ LoopReturn

\* ---- SaveNodeContent ----

\* SaveNodeContent(webNode, content) is called; a nil node is an error
UpsertCall(n, content) ==
    /\ pc["main"] = "idle"
    /\ clock < MaxUpserts
    /\ IF n = 0
       THEN /\ err' = [err EXCEPT !["main"] = TRUE]
            /\ UNCHANGED <<pc, arg>>
       ELSE /\ pc' = [pc EXCEPT !["main"] = "u_lock"]
            /\ arg' = [NoArg EXCEPT !.node = n, !.content = content]
            /\ err' = [err EXCEPT !["main"] = FALSE]
    /\ UNCHANGED <<docMeta, pages, pagesByURL, mutex, file, tickC, ticker, buf,
                   clock, calls, committed>>

\* SaveNodeContent: Lock, collect the children's URLs, build the page, look
\* the URL up in pagesByURL
UpsertLock ==
    /\ pc["main"] = "u_lock"
    /\ Lock("main")
    /\ LET page == XMLPage(nodes, arg.node, arg.content, clock + 1)
       IN  /\ arg' = [arg EXCEPT !.page = page,
                                 !.idx = IF page.URL \in DOMAIN pagesByURL
                                         THEN pagesByURL[page.URL] ELSE 0]
           /\ calls' = Append(calls, page)
    /\ clock' = clock + 1
    /\ pc' = [pc EXCEPT !["main"] = "u_store"]
    /\ UNCHANGED <<docMeta, pages, pagesByURL, file, tickC, ticker, buf, err,
                   committed>>

\* the update branch that appends instead of replacing
UpsertStoreAppendOnly ==
    /\ pc["main"] = "u_store"
    /\ pages' = Append(pages, arg.page)
    /\ arg' = [arg EXCEPT !.idx = 0]
    /\ pc' = [pc EXCEPT !["main"] = "u_finish"]
    /\ UNCHANGED <<docMeta, pagesByURL, mutex, file, tickC, ticker, buf, err,
                   clock, calls, committed>>

\* SaveNodeContent, first half of the write: Pages[idx] = page starts copying
\* the struct (its attribute fields), or Pages = append(Pages, page)
UpsertStore ==
    /\ pc["main"] = "u_store"
    /\ pages' = IF arg.idx # 0
                THEN [pages EXCEPT ![arg.idx] =
                        [@ EXCEPT !.URL = arg.page.URL, !.Title = arg.page.Title,
                                  !.Path = arg.page.Path,
                                  !.LastFetched = arg.page.LastFetched]]
                ELSE Append(pages, arg.page)
    /\ pc' = [pc EXCEPT !["main"] = "u_finish"]
    /\ UNCHANGED <<docMeta, pagesByURL, mutex, file, tickC, ticker, buf, err,
                   arg, clock, calls, committed>>

\* the append branch without the index entry
UpsertFinishNoIndex ==
    /\ pc["main"] = "u_finish"
    /\ IF arg.idx # 0
       THEN pages' = [pages EXCEPT ![arg.idx] = arg.page]
       ELSE UNCHANGED pages
    /\ pc' = [pc EXCEPT !["main"] = "u_unlock"]
    /\ UNCHANGED <<docMeta, pagesByURL, mutex, file, tickC, ticker, buf, err, arg,
                   clock, calls, committed>>

\* SaveNodeContent, second half: the struct copy completes (Content, Links),
\* or pagesByURL[urlStr] = len(Pages) - 1
UpsertFinish ==
    /\ pc["main"] = "u_finish"
    /\ IF arg.idx # 0
       THEN /\ pages' = [pages EXCEPT ![arg.idx] = arg.page]
            /\ UNCHANGED pagesByURL
       ELSE /\ pagesByURL' = (arg.page.URL :> Len(pages)) @@ pagesByURL
            /\ UNCHANGED pages
    /\ pc' = [pc EXCEPT !["main"] = "u_unlock"]
    /\ UNCHANGED <<docMeta, mutex, file, tickC, ticker, buf, err, arg, clock,
                   calls, committed>>

\* SaveNodeContent returns nil: the deferred Unlock
UpsertUnlock ==
    /\ pc["main"] = "u_unlock"
    /\ Unlock("main")
    /\ pc' = [pc EXCEPT !["main"] = "idle"]
    /\ committed' = committed \cup {pages}
    /\ UNCHANGED <<docMeta, pages, pagesByURL, file, tickC, ticker, buf, err,
                   arg, clock, calls>>

SaveNodeContent ==
    \/ \E n \in 0..Len(nodes), c \in Contents : UpsertCall(n, c)
    \/ UpsertLock
    \/ UpsertStore
    \/ UpsertFinish
    \/ UpsertUnlock

\* ---- Cleanup ----

\* HarvesterContext.Cleanup is called: xmlStorage.StopAutoSave() starts its
\* send on stopAutoSave; the final SaveToFile follows the send (LoopStop)
CleanupCall ==
    /\ pc["main"] = "idle"
    /\ pc' = [pc EXCEPT !["main"] = "c_stop"]
    /\ UNCHANGED <<docMeta, pages, pagesByURL, mutex, file, tickC, ticker, buf,
                   err, arg, clock, calls, committed>>

\* a caller invokes Cleanup (and so StopAutoSave) again after Cleanup
\* returned
CleanupCallAgain ==
    /\ pc["main"] = "done"
    /\ pc' = [pc EXCEPT !["main"] = "c_stop"]
    /\ UNCHANGED <<docMeta, pages, pagesByURL, mutex, file, tickC, ticker, buf,
                   err, arg, clock, calls, committed>>

Cleanup == CleanupCall \/ CleanupCallAgain \/ SaveToFile("main")

-----------------------------------------------------------------------------
(* pkg/harvester and cmd: the download run *)

\* the topic keyword "prompt-engineering"
Keyword == <<"k">>

\* page titles the crawler may extract
Titles == {"t"}

RECURSIVE findNodeRecursive(_, _)
RECURSIVE findInChildren(_, _, _)
\* WebTree.findNodeRecursive: pre-order, comparing the URLs with only the
\* fragment dropped
findNodeRecursive(current, target) ==
    IF current = 0 THEN 0
    ELSE IF String([nodes[current].URL EXCEPT !.Fragment = <<>>])
              = String([target EXCEPT !.Fragment = <<>>])
    THEN current
    ELSE findInChildren(current, 1, target)

\* the loop over current.Children from position i on
findInChildren(current, i, target) ==
    IF i > Len(nodes[current].Children) THEN 0
    ELSE LET found == findNodeRecursive(nodes[current].Children[i], target)
         IN  IF found # 0 THEN found ELSE findInChildren(current, i + 1, target)

\* a lookup that returns the node added last instead of the node of urlStr
FindNodeLastAdded(urlStr) == Len(nodes)

\* WebTree.FindNode(urlStr); 0 is nil
FindNode(urlStr) ==
    IF ~ParseOK(urlStr) THEN 0 ELSE findNodeRecursive(1, Parse(urlStr))

\* isParentURL with the keyword looked for in the root's whole path
isParentURLKeywordInRootPath(link) ==
    IF ~ParseOK(hc.RootURL) \/ ~ParseOK(link) THEN FALSE
    ELSE LET currentURL  == Parse(hc.RootURL)
             linkURL     == Parse(link)
             currentPath == TrimRight(currentURL.Path, Slash)
             linkPath    == TrimRight(linkURL.Path, Slash)
             lastSlash   == LastIndexOf(currentPath, Slash)
             parentPath  == SubSeq(currentPath, 1, lastSlash - 1)
         IN  IF currentURL.Host # linkURL.Host THEN FALSE
             ELSE IF lastSlash = 0 THEN FALSE
             ELSE IF linkPath = parentPath THEN TRUE
             ELSE Contains(currentPath, Keyword) /\ Contains(linkPath, Keyword)

\* isParentURL without the host comparison
isParentURLAnyHost(link) ==
    IF ~ParseOK(hc.RootURL) \/ ~ParseOK(link) THEN FALSE
    ELSE LET currentURL  == Parse(hc.RootURL)
             linkURL     == Parse(link)
             currentPath == TrimRight(currentURL.Path, Slash)
             linkPath    == TrimRight(linkURL.Path, Slash)
             lastSlash   == LastIndexOf(currentPath, Slash)
             parentPath  == SubSeq(currentPath, 1, lastSlash - 1)
         IN  IF lastSlash = 0 THEN FALSE
             ELSE IF linkPath = parentPath THEN TRUE
             ELSE Contains(parentPath, Keyword) /\ Contains(linkPath, Keyword)

\* HarvesterContext.isParentURL(link)
isParentURL(link) ==
    IF ~ParseOK(hc.RootURL) \/ ~ParseOK(link) THEN FALSE
    ELSE LET currentURL  == Parse(hc.RootURL)
             linkURL     == Parse(link)
             currentPath == TrimRight(currentURL.Path, Slash)
             linkPath    == TrimRight(linkURL.Path, Slash)
             lastSlash   == LastIndexOf(currentPath, Slash)
             parentPath  == SubSeq(currentPath, 1, lastSlash - 1)
         IN  IF currentURL.Host # linkURL.Host THEN FALSE
             ELSE IF lastSlash = 0 THEN FALSE
             ELSE IF linkPath = parentPath THEN TRUE
             ELSE Contains(parentPath, Keyword) /\ Contains(linkPath, Keyword)

\* HarvesterContext.removeFragment(linkStr)
removeFragment(linkStr) ==
    IF ~ParseOK(linkStr) THEN linkStr
    ELSE String([Parse(linkStr) EXCEPT !.Fragment = <<>>])

\* SaveNodeContent that drops the old record and appends the new one
ApplyUpsertMoveToEnd(ns, n, content) ==
    LET page == XMLPage(ns, n, content, clock + 1)
        keep == SelectSeq(pages, LAMBDA q : q.URL # page.URL)
    IN  /\ pages' = Append(keep, page)
        /\ pagesByURL' = [u \in DOMAIN pagesByURL \cup {page.URL} |->
                            CHOOSE i \in 1..Len(pages') : pages'[i].URL = u]
        /\ clock' = clock + 1
        /\ calls' = Append(calls, page)
        /\ committed' = committed \cup {pages'}

\* a whole SaveNodeContent(ns[n], content) call on the store, the guard held
\* from start to end
ApplyUpsert(ns, n, content) ==
    LET page == XMLPage(ns, n, content, clock + 1)
    IN  /\ IF page.URL \in DOMAIN pagesByURL
           THEN /\ pages' = [pages EXCEPT ![pagesByURL[page.URL]] = page]
                /\ UNCHANGED pagesByURL
           ELSE /\ pages' = Append(pages, page)
                /\ pagesByURL' = (page.URL :> (Len(pages) + 1)) @@ pagesByURL
        /\ clock' = clock + 1
        /\ calls' = Append(calls, page)
        /\ committed' = committed \cup {pages'}

NoUpsert == UNCHANGED <<pages, pagesByURL, clock, calls, committed>>

\* a whole SaveToFile call by thread t: the file written, or the write failed
ApplySaveToFile(t) ==
    \/ /\ file' = [file EXCEPT !.state = "written", !.doc = Marshal]
       /\ err' = [err EXCEPT ![t] = FALSE]
    \/ /\ file' \in {file, [file EXCEPT !.state = "partial", !.doc = NoData]}
       /\ err' = [err EXCEPT ![t] = TRUE]

\* the outcomes of fetching a page and extracting its content:
\* FetchPage fails, ExtractContent finds no body, or both succeed
PageOutcomes == {"fetchfail", "nobody", "ok"}

\* the links a fetched page other than the root may hold: none, or pages of
\* the keyword topic that are not among the root page's links
PageLinkLists == { <<>>, <<<<X, "/", "k", "/", "c">>>> }

\* what became of link number hc.i; found: the links its fetched page held
Result(link, accepted, node, what, found) ==
    [link |-> link, accepted |-> accepted, node |-> node, what |-> what,
     found |-> found]

\* Download with the root's extraction error ignored
DownloadRootIgnoreExtractError(links) ==
    /\ hc.pc = "start"
    /\ fetched' = Append(fetched, hc.RootURL)
    /\ \E o \in PageOutcomes, title \in Titles, content \in Contents :
          IF o = "fetchfail"
          THEN /\ hc' = [hc EXCEPT !.pc = "returned", !.err = "error", !.rootPage = o]
               /\ NoUpsert
               /\ UNCHANGED nodes
          ELSE LET ns == [nodes EXCEPT ![1].Title = title]
               IN  /\ nodes' = ns
                   /\ ApplyUpsert(ns, 1, content)
                   /\ hc' = [hc EXCEPT !.pc = "links", !.links = links, !.i = 1,
                                       !.rootPage = o]
    /\ UNCHANGED <<visited, maxDepth, ret, added, docMeta, mutex, file, tickC,
                   ticker, pc, buf, err, arg, printedURLs, outcome, results>>

\* Download up to the links loop: fetch the root page, set the root's title,
\* extract its content, save the root, extract the links; a fetch or
\* extraction error is returned at once
DownloadRoot(links) ==
    /\ hc.pc = "start"
    /\ fetched' = Append(fetched, hc.RootURL)
    /\ \E o \in PageOutcomes, title \in Titles, content \in Contents :
          IF o = "fetchfail"
          THEN /\ hc' = [hc EXCEPT !.pc = "returned", !.err = "error", !.rootPage = o]
               /\ NoUpsert
               /\ UNCHANGED nodes
          ELSE LET ns == [nodes EXCEPT ![1].Title = title]
               IN  /\ nodes' = ns
                   /\ IF o = "nobody"
                      THEN /\ hc' = [hc EXCEPT !.pc = "returned", !.err = "error",
                                               !.rootPage = o]
                           /\ NoUpsert
                      ELSE /\ ApplyUpsert(ns, 1, content)
                           /\ hc' = [hc EXCEPT !.pc = "links", !.links = links,
                                               !.i = 1, !.rootPage = o]
    /\ UNCHANGED <<visited, maxDepth, ret, added, docMeta, mutex, file, tickC,
                   ticker, pc, buf, err, arg, printedURLs, outcome, results>>

\* a failed link that returns from Download's loop instead of from
\* processLinkAndDownload
NextIndexAbortOnFailure(what) ==
    IF what \in {"fetchfail", "nobody"} THEN Len(hc.links) + 1 ELSE hc.i + 1

\* the loop index after processLinkAndDownload(links[i]) ended in `what`:
\* every return of processLinkAndDownload goes on with the next link
NextIndex(what) == hc.i + 1

\* one pass of Download's loop: processLinkAndDownload(links[i])
processLinkAndDownload ==
    /\ hc.pc = "links"
    /\ hc.i <= Len(hc.links)
    /\ LET link == hc.links[hc.i]
       IN  IF ~isParentURL(link)
           THEN /\ results' = Append(results, Result(link, FALSE, 0, "rejected", <<>>))
                /\ NoUpsert
                /\ UNCHANGED <<nodes, visited, fetched, printedURLs>>
           ELSE /\ printedURLs' = printedURLs \cup {removeFragment(link)}
                /\ IF ~hc.DownloadAll
                   THEN /\ results' = Append(results, Result(link, TRUE, 0, "listed", <<>>))
                        /\ NoUpsert
                        /\ UNCHANGED <<nodes, visited, fetched>>
                   ELSE LET r == AddURL(link, FindNode(hc.RootURL))
                        IN  /\ visited' = r.visited
                            /\ IF r.node = 0
                               THEN /\ results' = Append(results,
                                                    Result(link, TRUE, 0, "duplicate", <<>>))
                                    /\ nodes' = r.nodes
                                    /\ NoUpsert
                                    /\ UNCHANGED fetched
                               ELSE /\ fetched' = Append(fetched,
                                                    String(r.nodes[r.node].URL))
                                    /\ \E o \in PageOutcomes, title \in Titles,
                                          content \in Contents,
                                          found \in PageLinkLists :
                                          LET ns == [r.nodes EXCEPT
                                                       ![r.node].Title = title]
                                          IN  /\ o = "fetchfail" => found = <<>>
                                              /\ results' = Append(results,
                                                    Result(link, TRUE, r.node,
                                                           IF o = "ok" THEN "saved" ELSE o,
                                                           found))
                                              /\ nodes' = IF o = "fetchfail"
                                                          THEN r.nodes ELSE ns
                                              /\ IF o = "ok"
                                                 THEN ApplyUpsert(ns, r.node, content)
                                                 ELSE NoUpsert
    /\ hc' = [hc EXCEPT !.i = NextIndex(results'[Len(results')].what)]
    /\ UNCHANGED <<maxDepth, ret, added, docMeta, mutex, file, tickC, ticker, pc,
                   buf, err, arg, outcome>>

\* Download after the loop: CreateIndexFile (a no-op of XMLStorage), return nil
DownloadReturn ==
    /\ hc.pc = "links"
    /\ hc.i > Len(hc.links)
    /\ hc' = [hc EXCEPT !.pc = "returned", !.err = "nil"]
    /\ UNCHANGED <<treeVars, storeVars, printedURLs, outcome, fetched, results>>

\* DownloadWebsite when Download returned an error: print it and return,
\* Cleanup is not called
ReportFailure ==
    /\ hc.pc = "returned"
    /\ hc.err = "error"
    /\ outcome' = "failed"
    /\ hc' = [hc EXCEPT !.pc = "end"]
    /\ UNCHANGED <<treeVars, storeVars, printedURLs, fetched, results>>

\* DownloadWebsite calls Cleanup: StopAutoSave (the loop takes the stop
\* message and returns), then the final SaveToFile, whose error is printed
\* and dropped
RunCleanup ==
    /\ hc.pc = "returned"
    /\ hc.err = "nil"
    /\ pc["bg"] = "select"
    /\ ApplySaveToFile("main")
    /\ pc' = [pc EXCEPT !["main"] = "done", !["bg"] = "exited"]
    /\ ticker' = "stopped"
    /\ hc' = [hc EXCEPT !.pc = "cleaned"]
    /\ UNCHANGED <<treeVars, docMeta, pages, pagesByURL, mutex, tickC, buf, arg,
                   clock, calls, committed, printedURLs, outcome, fetched, results>>

\* DownloadWebsite after Cleanup: "XML download completed successfully"
ReportSuccess ==
    /\ hc.pc = "cleaned"
    /\ outcome' = "success"
    /\ hc' = [hc EXCEPT !.pc = "end"]
    /\ UNCHANGED <<treeVars, storeVars, printedURLs, fetched, results>>

\* a tick of the auto-save loop while the process runs: one whole SaveToFile,
\* its error printed
AutoSave ==
    /\ hc.pc # "end"
    /\ pc["bg"] = "select"
    /\ ApplySaveToFile("bg")
    /\ UNCHANGED <<treeVars, runVars, docMeta, pages, pagesByURL, mutex, tickC,
                   ticker, pc, buf, arg, clock, calls, committed>>

\* ---- exploration mode ----

\* processLink that also fetches the accepted link
processLinkAndFetch ==
    /\ hc.pc = "links"
    /\ hc.i <= Len(hc.links)
    /\ LET link  == hc.links[hc.i]
           clean == removeFragment(link)
       IN  IF ~isParentURL(link)
           THEN /\ results' = Append(results, Result(link, FALSE, 0, "rejected", <<>>))
                /\ UNCHANGED <<printedURLs, fetched>>
           ELSE /\ results' = Append(results,
                        Result(link, TRUE, 0,
                               IF clean \in printedURLs THEN "suppressed" ELSE "reported",
                               <<>>))
                /\ printedURLs' = printedURLs \cup {clean}
                /\ fetched' = Append(fetched, clean)
    /\ hc' = [hc EXCEPT !.i = hc.i + 1]
    /\ UNCHANGED <<treeVars, storeVars, outcome>>

\* Explore up to the links loop: fetch the root page (an error is returned
\* at once), set the root's title, extract the links
ExploreRoot(links) ==
    /\ hc.pc = "start"
    /\ fetched' = Append(fetched, hc.RootURL)
    /\ \/ /\ hc' = [hc EXCEPT !.pc = "returned", !.err = "error",
                                !.rootPage = "fetchfail"]
          /\ UNCHANGED nodes
       \/ \E title \in Titles :
             /\ nodes' = [nodes EXCEPT ![1].Title = title]
             /\ hc' = [hc EXCEPT !.pc = "links", !.links = links, !.i = 1,
                                 !.rootPage = "ok"]
    /\ UNCHANGED <<visited, maxDepth, ret, added, storeVars, printedURLs, outcome,
                   results>>

\* one pass of Explore's loop: processLink(links[i]) prints an accepted link
\* unless its fragment-free string was printed before (the Debug branch only
\* prints)
processLink ==
    /\ hc.pc = "links"
    /\ hc.i <= Len(hc.links)
    /\ LET link  == hc.links[hc.i]
           clean == removeFragment(link)
       IN  IF ~isParentURL(link)
           THEN /\ results' = Append(results, Result(link, FALSE, 0, "rejected", <<>>))
                /\ UNCHANGED printedURLs
           ELSE /\ results' = Append(results,
                        Result(link, TRUE, 0,
                               IF clean \in printedURLs THEN "suppressed" ELSE "reported",
                               <<>>))
                /\ printedURLs' = printedURLs \cup {clean}
    /\ hc' = [hc EXCEPT !.i = hc.i + 1]
    /\ UNCHANGED <<treeVars, storeVars, outcome, fetched>>

\* Explore after the loop: return nil
ExploreReturn ==
    /\ hc.pc = "links"
    /\ hc.i > Len(hc.links)
    /\ hc' = [hc EXCEPT !.pc = "returned", !.err = "nil"]
    /\ UNCHANGED <<treeVars, storeVars, printedURLs, outcome, fetched, results>>

\* ExploreWebsite after Explore: "Failed to explore website" on an error
ExploreReport ==
    /\ hc.pc = "returned"
    /\ outcome' = IF hc.err = "error" THEN "failed" ELSE "none"
    /\ hc' = [hc EXCEPT !.pc = "end"]
    /\ UNCHANGED <<treeVars, storeVars, printedURLs, fetched, results>>

-----------------------------------------------------------------------------
(* The tree under arbitrary AddURL calls *)

\* URL strings given to the tree: variants of one page (fragment, trailing
\* slashes), other pages, a bare host, an unparsable string
TreeURLs ==
    { <<X, "/", "a">>, <<X, "/", "a", "/", "/", "#", "f">>, <<X, "/", "b">>,
      <<X>>, <<X, "/">>, <<X, "/", "%">> }

TreeRoots == { <<X, "/", "a">>, <<X, "/", "b", "/", "#", "f">> }

NoCall == [node |-> 0, err |-> FALSE, repeat |-> FALSE]

\* tree.NewWebTree(rootURL, maxDepth), rootURL parsable: the root is not
\* entered in VisitedURLs
NewWebTree(rootURL, depth) ==
    /\ nodes = <<NewWebNode(<<>>, rootURL, 0)>>
    /\ visited = {}
    /\ maxDepth = depth

InitTree ==
    /\ \E r \in TreeRoots, d \in {0, 1} : NewWebTree(r, d)
    /\ ret = NoCall
    /\ added = {}
    /\ StoreUnused
    /\ RunUnused

\* a caller invokes WebTree.AddURL(u, p), p nil or any node allocated so far
CallAddURL(u, p) ==
    LET r == AddURL(u, p)
    IN  /\ r.node # 0 => Len(nodes) < MaxNodes
        /\ nodes' = r.nodes
        /\ visited' = r.visited
        /\ ret' = [node |-> r.node, err |-> r.err,
                   repeat |-> ParseOK(u) /\ Canonical(u) \in added]
        /\ added' = IF ParseOK(u) THEN added \cup {Canonical(u)} ELSE added
        /\ UNCHANGED <<maxDepth, storeVars, runVars>>

NextTree == \E u \in TreeURLs, p \in 0..Len(nodes) : CallAddURL(u, p)

SpecTree == InitTree /\ [][NextTree]_vars

-----------------------------------------------------------------------------
(* The depth limit: IsAllowedDepth calls on a new tree *)

\* maxDepth arguments of NewWebTree: negative, zero, positive
DepthLimits == -1..2

\* depth arguments of IsAllowedDepth: below, at and above the limits
Depths == -2..3

InitDepth ==
    /\ \E d \in DepthLimits : NewWebTree(<<X, "/", "a">>, d)
    /\ ret = NoCall
    /\ added = {}
    /\ StoreUnused
    /\ RunUnused

\* a caller invokes WebTree.IsAllowedDepth(depth)
CallIsAllowedDepth(depth) ==
    /\ Len(results) < MaxCalls
    /\ results' = Append(results, [depth |-> depth, allowed |-> IsAllowedDepth(depth)])
    /\ UNCHANGED <<treeVars, storeVars, hc, printedURLs, outcome, fetched>>

NextDepth == \E depth \in Depths : CallIsAllowedDepth(depth)

SpecDepth == InitDepth /\ [][NextDepth]_vars

-----------------------------------------------------------------------------
(* The store under SaveNodeContent calls, the auto-save goroutine, Cleanup *)

StoreRoot == <<X, "/", "k", "/", "a">>

\* a document an earlier run (at an earlier time) left at FilePath: one page
\* that the current run does not save
OldDoc ==
    [RootURL   |-> StoreRoot,
     CreatedAt |-> -1,
     Pages     |-> << [URL |-> <<X, "/", "k", "/", "o">>, Title |-> "t",
                       Path |-> <<"/", "k", "/", "o">>, LastFetched |-> -1,
                       Content |-> "c1", Links |-> <<>>] >>]

\* the earlier run's file at FilePath
OldFile == [state |-> "old", doc |-> OldDoc, prior |-> OldDoc]

\* the tree whose nodes are saved: the root, a link to an anchor of the root
\* page, a link to the parent page (each added by AddURL under the root)
StoreTree ==
    LET t0 == [nodes |-> <<NewWebNode(<<>>, StoreRoot, 0)>>, visited |-> {}]
        t1 == AddURLOn(t0, <<X, "/", "k", "/", "a", "#", "f">>, 1)
        t2 == AddURLOn([nodes |-> t1.nodes, visited |-> t1.visited],
                       <<X, "/", "k", "/">>, 1)
    IN  t2

InitStore ==
    /\ nodes = StoreTree.nodes
    /\ visited = StoreTree.visited
    /\ maxDepth = 0
    /\ ret = NoCall
    /\ added = {}
    /\ file \in {Absent, OldFile}
    /\ NewXMLStorage(StoreRoot)
    /\ RunUnused

NextStore ==
    \/ (\E n \in 0..Len(nodes), c \in Contents : UpsertCall(n, c)) /\ UNCHANGED <<treeVars, runVars>>
    \/ UpsertLock /\ UNCHANGED <<treeVars, runVars>>
    \/ UpsertStore /\ UNCHANGED <<treeVars, runVars>>
    \/ UpsertFinish /\ UNCHANGED <<treeVars, runVars>>
    \/ UpsertUnlock /\ UNCHANGED <<treeVars, runVars>>
    \/ CleanupCall /\ UNCHANGED <<treeVars, runVars>>
    \/ CleanupCallAgain /\ UNCHANGED <<treeVars, runVars>>
    \/ (\E t \in Threads : SaveLock(t)) /\ UNCHANGED <<treeVars, runVars>>
    \/ (\E t \in Threads : SaveMarshal(t)) /\ UNCHANGED <<treeVars, runVars>>
    \/ (\E t \in Threads : SaveWrite(t)) /\ UNCHANGED <<treeVars, runVars>>
    \/ (\E t \in Threads : SaveUnlock(t)) /\ UNCHANGED <<treeVars, runVars>>
    \/ TimerFire /\ UNCHANGED <<treeVars, runVars>>
    \/ LoopTick /\ UNCHANGED <<treeVars, runVars>>
    \/ LoopStop /\ UNCHANGED <<treeVars, runVars>>
    \/ LoopReturn /\ UNCHANGED <<treeVars, runVars>>

SpecStore == InitStore /\ [][NextStore]_vars

\* a step of the goroutine running SaveToFile: each goroutine that can run
\* is scheduled, and sync.Mutex hands the lock to a waiter
FlushStep(t) ==
    (SaveLock(t) \/ SaveMarshal(t) \/ SaveWrite(t) \/ SaveUnlock(t))
        /\ UNCHANGED <<treeVars, runVars>>

\* the scheduling the Go runtime gives the store: runnable goroutines run
\* (weak fairness of each goroutine's steps), and a select whose stop case
\* is ready again and again takes it in the end, the choice among ready
\* cases being uniformly random (strong fairness of the rendezvous)
FairStore ==
    /\ \A t \in Threads : WF_vars(FlushStep(t))
    /\ WF_vars((UpsertLock \/ UpsertStore \/ UpsertFinish \/ UpsertUnlock)
                  /\ UNCHANGED <<treeVars, runVars>>)
    /\ WF_vars(LoopReturn /\ UNCHANGED <<treeVars, runVars>>)
    /\ SF_vars(LoopStop /\ UNCHANGED <<treeVars, runVars>>)

\* the store created on a path that holds no file
InitStoreFair == InitStore /\ file = Absent

SpecStoreFair == InitStoreFair /\ [][NextStore]_vars /\ FairStore

-----------------------------------------------------------------------------
(* A download run: DownloadWebsite from the context's creation to its report *)

RunRoots == { <<X, "/", "k", "/", "a">>, <<X, "/", "a", "/", "b">> }

\* links the root page may hold (ExtractLinks returns strings that parse):
\* the keyword root itself and an anchor of it, its parent page in two
\* spellings, the other root's parent, another host
RunLinks ==
    { <<X, "/", "k", "/", "a">>, <<X, "/", "k", "/", "a", "#", "f">>,
      <<X, "/", "k", "/">>, <<X, "/", "k">>, <<X, "/", "a">>, <<Y, "/", "k">> }

LinkLists == UNION {[1..n -> RunLinks] : n \in 0..MaxLinks}

\* harvester.NewXMLDownloaderContext(url, "docs.xml", url, maxDepth, debug),
\* then DownloadAll set or left unset by the caller
InitRun ==
    /\ \E r \in RunRoots, all \in BOOLEAN :
          /\ NewWebTree(r, 2)
          /\ NewXMLStorage(r)
          /\ hc = [RootURL |-> r, DownloadAll |-> all, pc |-> "start",
                   rootPage |-> "none", links |-> <<>>, i |-> 0, err |-> "none"]
    /\ ret = NoCall
    /\ added = {}
    /\ file = Absent
    /\ printedURLs = {}
    /\ outcome = "none"
    /\ fetched = <<>>
    /\ results = <<>>

NextRun ==
    \/ \E links \in LinkLists : DownloadRoot(links)
    \/ processLinkAndDownload
    \/ DownloadReturn
    \/ ReportFailure
    \/ RunCleanup
    \/ ReportSuccess
    \/ AutoSave

SpecRun == InitRun /\ [][NextRun]_vars

-----------------------------------------------------------------------------
(* An exploration: ExploreWebsite from the context's creation to its report *)

\* root URLs: under the keyword topic, three levels deep, a bare host, one
\* level deep, the keyword as the last segment only
ExploreRoots ==
    { <<X, "/", "k", "/", "a">>, <<X, "/", "a", "/", "b", "/", "c">>, <<X>>,
      <<X, "/", "a">>, <<X, "/", "a", "/", "k">> }

\* links the root page may hold: the parent of the deep root in three
\* spellings, its child, the same path on another host, keyword pages, the
\* host's top page in two spellings
ExploreLinks ==
    { <<X, "/", "a", "/", "b">>, <<X, "/", "a", "/", "b", "/">>,
      <<X, "/", "a", "/", "b", "#", "f">>,
      <<X, "/", "a", "/", "b", "/", "c", "/", "d">>,
      <<Y, "/", "a", "/", "b">>,
      <<X, "/", "k">>, <<X, "/", "k", "/", "a", "/", "z">>,
      <<X>>, <<X, "/">> }

ExploreLinkLists == UNION {[1..n -> ExploreLinks] : n \in 0..MaxLinks}

\* harvester.NewExplorerContext(urlStr, maxDepth, debug): a NullStorage
InitExplore ==
    /\ \E r \in ExploreRoots :
          /\ NewWebTree(r, 2)
          /\ hc = [RootURL |-> r, DownloadAll |-> FALSE, pc |-> "start",
                   rootPage |-> "none", links |-> <<>>, i |-> 0, err |-> "none"]
    /\ ret = NoCall
    /\ added = {}
    /\ StoreUnused
    /\ printedURLs = {}
    /\ outcome = "none"
    /\ fetched = <<>>
    /\ results = <<>>

NextExplore ==
    \/ \E links \in ExploreLinkLists : ExploreRoot(links)
    \/ processLink
    \/ ExploreReturn
    \/ ExploreReport

SpecExplore == InitExplore /\ [][NextExplore]_vars

-----------------------------------------------------------------------------
(* Claims about the tree *)

\* the nodes AddURL created (every node but the root) whose URL has
\* canonical form k
CreatedFor(k) == {n \in 2..Len(nodes) : Canonical(String(nodes[n].URL)) = k}

\* C1: once AddURL was called with a URL of canonical form k, AddURL created
\* exactly one node for k, and a further AddURL call with any URL of that
\* canonical form, under any parent, returns (nil, no error) and leaves the
\* tree and the visited set as they are.
C1_SecondAddURLIsNoOp ==
    /\ \A k \in added : Cardinality(CreatedFor(k)) = 1
    /\ \A u \in TreeURLs, p \in 0..Len(nodes) :
          (ParseOK(u) /\ Canonical(u) \in added) =>
              LET r == AddURL(u, p)
              IN  /\ r.node = 0
                  /\ ~r.err
                  /\ r.nodes = nodes
                  /\ r.visited = visited
    /\ ret.repeat => ret.node = 0 /\ ~ret.err

\* C1 witness: the last AddURL call was a second call for a canonical form
\* whose first call created a node, and two spellings of that form exist
C1_Witness ==
    /\ ret.repeat
    /\ \E k \in added : Cardinality(CreatedFor(k)) = 1
    /\ \E u1, u2 \in TreeURLs :
          /\ u1 # u2 /\ ParseOK(u1) /\ ParseOK(u2)
          /\ Canonical(u1) = Canonical(u2) /\ Canonical(u1) \in added

\* C2 (as claimed): every visited canonical URL is the canonical URL of at
\* most one node reachable from the root, the root included.
C2_VisitedKeyOneReachableNode ==
    \A k \in visited :
        Cardinality({n \in Reachable : Canonical(String(nodes[n].URL)) = k}) <= 1

\* the nodes whose Children list holds n
Holders(n) ==
    {m \in 1..Len(nodes) : \E i \in 1..Len(nodes[m].Children) : nodes[m].Children[i] = n}

\* C16: after any sequence of AddURL calls the root has depth 0 and no
\* parent, and every other node n reachable from the root is in the
\* Children list of exactly one node, once, that node is n's Parent, and
\* Depth(n) = Depth(Parent(n)) + 1.
C16_DepthIsParentDepthPlusOne ==
    /\ nodes[1].Depth = 0
    /\ nodes[1].Parent = 0
    /\ \A n \in Reachable \ {1} :
          /\ Holders(n) = {nodes[n].Parent}
          /\ Cardinality({i \in 1..Len(nodes[nodes[n].Parent].Children) :
                             nodes[nodes[n].Parent].Children[i] = n}) = 1
          /\ nodes[n].Depth = nodes[nodes[n].Parent].Depth + 1

\* C16 witness: a node two levels under the root is reachable
C16_Witness ==
    \E n \in Reachable : nodes[n].Depth = 2 /\ nodes[nodes[n].Parent].Parent = 1

RECURSIVE PreOrder(_)
RECURSIVE PreOrderChildren(_, _)
\* the nodes under n in depth-first pre-order
PreOrder(n) == <<n>> \o PreOrderChildren(n, 1)

\* the pre-order of the subtrees of n's children from position i on
PreOrderChildren(n, i) ==
    IF i > Len(nodes[n].Children) THEN <<>>
    ELSE PreOrder(nodes[n].Children[i]) \o PreOrderChildren(n, i + 1)

\* the positions in the pre-order from the root of the nodes whose URL has
\* the canonical form of u
Matches(u) ==
    {i \in 1..Len(PreOrder(1)) :
        Canonical(String(nodes[PreOrder(1)[i]].URL)) = Canonical(u)}

\* C17 (as claimed): for a URL string that parses, FindNode returns the
\* first node in depth-first pre-order whose canonical URL is the canonical
\* form of the string, and nil only when no reachable node has it.
C17_FindNodeByCanonicalForm ==
    \A u \in {v \in TreeURLs : ParseOK(v)} :
        IF Matches(u) = {}
        THEN FindNode(u) = 0
        ELSE \E i \in Matches(u) :
                /\ \A j \in Matches(u) : i <= j
                /\ FindNode(u) = PreOrder(1)[i]

\* C19: every IsAllowedDepth(d) call returns true when maxDepth <= 0,
\* whatever d is, and when maxDepth > 0 returns true exactly when
\* d <= maxDepth.
C19_IsAllowedDepth ==
    \A j \in 1..Len(results) :
        IF maxDepth > 0
        THEN results[j].allowed <=> results[j].depth <= maxDepth
        ELSE results[j].allowed

\* C19 witness: under a positive limit the depth at the limit was allowed
\* and the depth above it was not
C19_Witness ==
    /\ maxDepth > 0
    /\ \E j, k \in 1..Len(results) :
          /\ results[j].depth = maxDepth /\ results[j].allowed
          /\ results[k].depth = maxDepth + 1 /\ ~results[k].allowed

-----------------------------------------------------------------------------
(* Claims about the store *)

\* the thread is inside SaveToFile's critical section
Flushing(t) == pc[t] \in {"s_marshal", "s_write", "s_unlock"}

\* SaveNodeContent is inside its critical section
Upserting == pc["main"] \in {"u_store", "u_finish", "u_unlock"}

\* every field of record p comes from the one SaveNodeContent call that
\* stamped it
Whole(p) ==
    /\ p.LastFetched \in 1..Len(calls)
    /\ p = calls[p.LastFetched]

\* a serialized document is the record sequence as it stood between two
\* complete SaveNodeContent calls, every record whole
Snapshot(d) ==
    /\ d.Pages \in committed
    /\ \A i \in 1..Len(d.Pages) : Whole(d.Pages[i])

\* pagesByURL and pages agree
IndexConsistent ==
    /\ \A k \in DOMAIN pagesByURL :
          pagesByURL[k] \in 1..Len(pages) /\ pages[pagesByURL[k]].URL = k
    /\ \A i \in 1..Len(pages) :
          pages[i].URL \in DOMAIN pagesByURL /\ pagesByURL[pages[i].URL] = i

\* C3: whatever the interleaving of SaveNodeContent with the background and
\* the final SaveToFile, every serialized document (in a flusher's buffer or
\* on disk) is the record sequence as it stood between two complete
\* SaveNodeContent calls with every record written by one single call, and a
\* flusher in its critical section never overlaps an update in progress.
C3_FlushSeesNoPartialUpdate ==
    /\ \A t \in Threads : Snapshot(buf[t])
    /\ file.state = "written" => Snapshot(file.doc)
    /\ \A t \in Threads : Flushing(t) => ~Upserting /\ mutex = t /\ IndexConsistent

\* C3 witness: the background flush holds the guard with a document of at
\* least one record serialized while SaveNodeContent waits for the guard
C3_Witness ==
    /\ pc["bg"] = "s_write"
    /\ pc["main"] = "u_lock"
    /\ Len(buf["bg"].Pages) >= 1

\* the content of the latest SaveNodeContent call for URL string u
LatestContent(u) ==
    LET last == CHOOSE i \in 1..Len(calls) :
                    /\ calls[i].URL = u
                    /\ \A j \in (i + 1)..Len(calls) : calls[j].URL # u
    IN  calls[last].Content

UpsertedURLs == {calls[i].URL : i \in 1..Len(calls)}

C6_FinalFlushPersistsAll ==
    (pc["main"] = "done" /\ ~err["main"]) =>
        /\ file.state = "written"
        /\ file.doc = [RootURL |-> docMeta.RootURL,
                       CreatedAt |-> docMeta.CreatedAt, Pages |-> pages]
        /\ Len(file.doc.Pages) = Cardinality(UpsertedURLs)
        /\ \A u \in UpsertedURLs :
              \E i \in 1..Len(file.doc.Pages) :
                  /\ file.doc.Pages[i].URL = u
                  /\ file.doc.Pages[i].Content = LatestContent(u)

\* C6 witness: Cleanup returned with a successful final write of two records
\* after the last periodic flush had failed
C6_Witness ==
    /\ pc["main"] = "done"
    /\ ~err["main"]
    /\ err["bg"]
    /\ Len(pages) >= 2

\* StopAutoSave has returned
StopReturned == pc["main"] \in {"s_lock", "s_marshal", "s_write", "s_unlock", "done"}

\* C7: from the moment StopAutoSave has returned, the background task is on
\* its way out and never flushes again, and the file changes only by the
\* final SaveToFile of Cleanup, whatever ticks the timer still delivers.
C7_NoFlushAfterStop ==
    [][StopReturned =>
          /\ pc'["bg"] \in {"returning", "exited"}
          /\ file' # file => pc["main"] = "s_write"]_vars

\* C7 witness: Cleanup has returned, the file is written, and a tick is
\* pending on the ticker channel that nobody will receive
C7_Witness ==
    /\ pc["main"] = "done"
    /\ pc["bg"] = "exited"
    /\ tickC
    /\ file.state = "written"

\* the records of the document the path held when the store was created
PriorPages == {file.prior.Pages[i] : i \in 1..Len(file.prior.Pages)}

\* document d has fresh root metadata and only records SaveNodeContent
\* calls of the current run built
OfThisRun(d) ==
    /\ d.RootURL = StoreRoot
    /\ d.CreatedAt = 0
    /\ \A i \in 1..Len(d.Pages) :
          /\ d.Pages[i] \notin PriorPages
          /\ \E c \in 1..Len(calls) : d.Pages[i].URL = calls[c].URL

\* C20: a store created on a path that holds an earlier run's document has
\* no record before its first SaveNodeContent call and fresh root metadata;
\* the in-memory document, every serialized document and every document a
\* flush wrote hold only records saved in the current run.
C20_NoResumeFromExistingFile ==
    /\ calls = <<>> => pages = <<>>
    /\ OfThisRun(Marshal)
    /\ \A t \in Threads : buf[t] # NoData => OfThisRun(buf[t])
    /\ file.state = "written" => OfThisRun(file.doc)

\* C20 witness: the path held the earlier document and a flush has written
\* a document with a record over it
C20_Witness ==
    /\ file.prior = OldDoc
    /\ file.state = "written"
    /\ Len(file.doc.Pages) >= 1

\* C23: a failing write of a periodic flush changes no in-memory record;
\* when a periodic flush returns, failed or not, the background task
\* selects again (it leaves its loop only on StopAutoSave's message) and
\* takes the next tick; and the write of a flush that follows a failed one,
\* when it succeeds, leaves the whole in-memory document in the file.
C23_FailedFlushIsRetried ==
    [][/\ (pc["bg"] = "s_write" /\ err'["bg"]) =>
              UNCHANGED <<docMeta, pages, pagesByURL>>
       /\ (pc["bg"] = "s_unlock" /\ pc'["bg"] # "s_unlock") => pc'["bg"] = "select"
       /\ (pc["bg"] # "returning" /\ pc'["bg"] = "returning") => pc["main"] = "c_stop"
       /\ pc'["bg"] \notin {"returning", "exited"} => ticker' = "running"
       /\ (pc["bg"] = "select" /\ pc'["bg"] # "select") =>
              \/ pc'["bg"] = "s_lock" /\ tickC
              \/ pc'["bg"] = "returning"
       /\ (pc["bg"] = "s_write" /\ err["bg"] /\ ~err'["bg"]) =>
              /\ file'.state = "written"
              /\ file'.doc = [RootURL |-> docMeta'.RootURL,
                              CreatedAt |-> docMeta'.CreatedAt, Pages |-> pages']
      ]_vars

\* C23 witness: the periodic flush that failed last time has taken a new
\* tick and is about to write a document with a record
C23_Witness ==
    /\ pc["bg"] = "s_write"
    /\ err["bg"]
    /\ file.state = "partial"
    /\ Len(buf["bg"].Pages) >= 1

\* C29: whenever no SaveNodeContent call is inside its critical section,
\* every key of pagesByURL maps to a position of Pages whose record has that
\* URL, every position of Pages is the image of exactly one key, and there
\* are as many keys as records.
C29_IndexAgreesWithRecords ==
    ~Upserting =>
        /\ \A k \in DOMAIN pagesByURL :
              pagesByURL[k] \in 1..Len(pages) /\ pages[pagesByURL[k]].URL = k
        /\ \A i \in 1..Len(pages) :
              Cardinality({k \in DOMAIN pagesByURL : pagesByURL[k] = i}) = 1
        /\ Cardinality(DOMAIN pagesByURL) = Len(pages)

\* C29 witness: between calls, after one record was appended and then a
\* second, with a flush in progress
C29_Witness ==
    /\ pc["main"] = "idle"
    /\ Len(pages) = 2
    /\ Flushing("bg")

\* the background task has not taken a stop message
Alive == pc["bg"] \notin {"returning", "exited"}

\* C28: under fair scheduling, a StopAutoSave invoked while the background
\* task is alive returns and the final SaveToFile of Cleanup completes,
\* wherever the task is at that moment: selecting, waiting for the guard or
\* in the middle of a periodic flush.
C28_StopReturnsAndFinalFlushCompletes ==
    (pc["main"] = "c_stop" /\ Alive) ~> (pc["main"] = "done")

\* C28 witness: StopAutoSave waits while the background task, in the middle
\* of a periodic flush, holds the guard
C28_Witness ==
    /\ pc["main"] = "c_stop"
    /\ pc["bg"] = "s_write"
    /\ mutex = "bg"
    /\ tickC

\* C30 (as claimed): no invocation of StopAutoSave is left without a
\* receiver for its stop message, which is what it needs to return: while
\* an invocation waits, the background task has not returned.
C30_EveryStopReturns ==
    pc["main"] = "c_stop" => Alive

-----------------------------------------------------------------------------
(* Claims about the download run *)

\* C4 (as claimed): the store holds at most one record per canonical URL.
C4_OneRecordPerCanonicalURL ==
    \A i, j \in 1..Len(pages) :
        i # j => Canonical(pages[i].URL) # Canonical(pages[j].URL)

\* C8 (as claimed): when the final SaveToFile of Cleanup failed, the run does
\* not end reporting success.
C8_FinalFlushFailureIsOutcome ==
    (hc.pc = "end" /\ pc["main"] = "done" /\ err["main"]) => outcome # "success"

\* the links processed so far whose processing ended in one of `whats`
Ended(whats) == {j \in 1..Len(results) : results[j].what \in whats}

\* C9: once the root page is fetched, extracted and saved, Download returns
\* nil whatever fails afterwards; every link of the root page is processed,
\* in order, also after a failing one; a link whose fetch or extraction
\* fails makes no SaveNodeContent call; and every link that was accepted,
\* not yet visited, and fetched and extracted successfully has its record in
\* the store.
C9_LinkFailuresAreSkipped ==
    /\ (hc.rootPage = "ok" /\ hc.pc \in {"returned", "cleaned", "end"}) =>
          hc.err = "nil" /\ Len(results) = Len(hc.links)
    /\ Len(results) <= Len(hc.links)
    /\ \A j \in 1..Len(results) :
          /\ results[j].link = hc.links[j]
          /\ results[j].accepted = isParentURL(hc.links[j])
          /\ results[j].what = "saved" =>
                \E i \in 1..Len(pages) :
                    pages[i].URL = String(Parse(hc.links[j]))
    /\ hc.rootPage = "ok" => Len(calls) = 1 + Cardinality(Ended({"saved"}))

\* C9 witness: Download returned nil after a link failed and a later link
\* was saved
C9_Witness ==
    /\ hc.pc = "returned"
    /\ hc.err = "nil"
    /\ \E j, k \in 1..Len(results) :
          /\ j < k
          /\ results[j].what \in {"fetchfail", "nobody"}
          /\ results[k].what = "saved"

\* C10: when the root page's fetch or its content extraction fails, Download
\* returns an error and nothing else has happened or happens later: no link
\* is classified or fetched, the tree is the root alone, nothing is visited,
\* and neither the store nor any flushed file holds a record.
C10_RootFailureIsFatal ==
    hc.rootPage \in {"fetchfail", "nobody"} =>
        /\ hc.err = "error"
        /\ results = <<>>
        /\ printedURLs = {}
        /\ fetched = <<hc.RootURL>>
        /\ Len(nodes) = 1
        /\ nodes[1].Children = <<>>
        /\ visited = {}
        /\ pages = <<>>
        /\ DOMAIN pagesByURL = {}
        /\ file.state = "written" => file.doc.Pages = <<>>
        /\ outcome # "success"

\* C10 witness: the root page was fetched but had no body; the run ended
\* reporting the failure
C10_Witness ==
    /\ hc.rootPage = "nobody"
    /\ hc.pc = "end"
    /\ outcome = "failed"
    /\ nodes[1].Title = "t"

\* the URL strings fetched for links: one per result that created a node
RECURSIVE LinkFetches(_)
LinkFetches(j) ==
    IF j = 0 THEN <<>>
    ELSE LinkFetches(j - 1) \o
         (IF results[j].node # 0 THEN <<String(Parse(results[j].link))>> ELSE <<>>)

RootLinks == [i \in 1..Len(nodes[1].Children) |-> String(nodes[nodes[1].Children[i]].URL)]

\* C18 (as claimed): when the run has ended with the final SaveToFile
\* written, the root's record in the persisted document carries the links of
\* the root page that Download accepted and added.
C18_RootRecordCarriesLinks ==
    (hc.pc = "end" /\ outcome = "success" /\ ~err["main"]) =>
        \A i \in 1..Len(file.doc.Pages) :
            file.doc.Pages[i].URL = String(nodes[1].URL) =>
                file.doc.Pages[i].Links = RootLinks

\* C27 (as claimed): in one Download run no two fetches are for URLs of the
\* same canonical form.
C27_OneFetchPerCanonicalURL ==
    \A i, j \in 1..Len(fetched) :
        i # j => Canonical(fetched[i]) # Canonical(fetched[j])

\* the positions of the records with URL string u
RecordsOf(u) == {i \in 1..Len(pages) : pages[i].URL = u}

\* C25: every SaveNodeContent call changes the records in one of two ways:
\* for a URL already stored, the record at its position is replaced by the
\* new page while the number of records and every other record stay as they
\* are; for a URL not stored, the new page is appended at the end and every
\* earlier record stays; no step, flushes included, changes the root URL
\* or the creation time of the document.
C25_UpsertReplacesInPlaceOrAppends ==
    /\ [](docMeta = [RootURL |-> hc.RootURL, CreatedAt |-> 0])
    /\ [][
          /\ docMeta' = docMeta
          /\ (calls' # calls) <=> (pages' # pages)
          /\ calls' # calls =>
                LET page == calls'[Len(calls')]
                IN  /\ Len(calls') = Len(calls) + 1
                    /\ IF RecordsOf(page.URL) # {}
                       THEN /\ Len(pages') = Len(pages)
                            /\ \A i \in 1..Len(pages) :
                                  pages'[i] = IF i \in RecordsOf(page.URL)
                                              THEN page ELSE pages[i]
                       ELSE pages' = Append(pages, page)
       ]_vars

\* C25 witness: the third call replaced the first record while a second
\* record, saved in between, kept its place
C25_Witness ==
    /\ Len(calls) = 3
    /\ Len(pages) = 2
    /\ pages[1] = calls[3]
    /\ pages[2] = calls[2]
    /\ file.state = "written"

\* in this step no node is removed or changed but by children appended at
\* the end of its list, and no key leaves the visited set
CrawlStateGrows ==
    /\ Len(nodes') >= Len(nodes)
    /\ visited \subseteq visited'
    /\ \A n \in 1..Len(nodes) :
          /\ nodes'[n].URL = nodes[n].URL
          /\ nodes'[n].Parent = nodes[n].Parent
          /\ nodes'[n].Depth = nodes[n].Depth
          /\ Len(nodes'[n].Children) >= Len(nodes[n].Children)
          /\ SubSeq(nodes'[n].Children, 1, Len(nodes[n].Children)) = nodes[n].Children

\* in this step a node is added only for the link processed in it, which
\* the classifier accepted and whose canonical form was not visited before
NodeOnlyForAcceptedUnvisitedLink ==
    Len(nodes') > Len(nodes) =>
        /\ Len(nodes') = Len(nodes) + 1
        /\ Len(results') = Len(results) + 1
        /\ LET r == results'[Len(results')]
           IN  /\ r.accepted
               /\ isParentURL(r.link)
               /\ Canonical(r.link) \notin visited
               /\ Canonical(r.link) \in visited'
               /\ nodes'[Len(nodes')].URL = Parse(r.link)

\* C26: across every step of a Download (its AddURL calls included) no
\* node is removed from the tree, no key is removed from the visited set,
\* every node's children list changes only by appending at its end, and a
\* node is added only for a link the classifier accepted whose canonical
\* form was not yet visited.
C26_CrawlStateOnlyGrows ==
    [][CrawlStateGrows /\ NodeOnlyForAcceptedUnvisitedLink]_vars

\* C26 witness: two accepted links were added under the root, in the order
\* they were processed
C26_Witness ==
    /\ nodes[1].Children = <<2, 3>>
    /\ Cardinality(visited) = 2
    /\ \E j, k \in 1..Len(results) :
          j < k /\ results[j].node = 2 /\ results[k].node = 3

-----------------------------------------------------------------------------
(* Claims about an exploration *)

AcceptedLinks == {results[j].link : j \in {i \in 1..Len(results) : results[i].accepted}}

\* C13 (as claimed): the number of report lines equals the number of
\* distinct canonical URLs among the accepted links.
C13_OneReportPerCanonicalURL ==
    Cardinality(Ended({"reported"}))
        = Cardinality({Canonical(l) : l \in AcceptedLinks})

\* a path has a "/" separator
HasSeparator(path) == \E i \in 1..Len(path) : path[i] = Slash

\* the parent-path of a path with a separator: the path without its last
\* "/" and last segment
ParentPathOf(path) ==
    CHOOSE q \in {SubSeq(path, 1, n) : n \in 0..Len(path)} :
        \E seg \in {SubSeq(path, n, Len(path)) : n \in 1..(Len(path) + 1)} :
            /\ path = q \o <<Slash>> \o seg
            /\ ~HasSeparator(seg)

\* the acceptance rule in the words of the classifier's contract
Accepts(root, link) ==
    /\ ParseOK(link)
    /\ Parse(link).Host = Parse(root).Host
    /\ HasSeparator(TrimRight(Parse(root).Path, Slash))
    /\ LET parent == ParentPathOf(TrimRight(Parse(root).Path, Slash))
           cand   == TrimRight(Parse(link).Path, Slash)
       IN  \/ cand = parent
           \/ Contains(parent, Keyword) /\ Contains(cand, Keyword)

\* candidate strings given to the classifier: the page's links and a string
\* that does not parse
Candidates == ExploreLinks \cup {<<X, "/", "a", "/", "b", "%">>}

\* C14: for every root and every candidate, isParentURL accepts exactly
\* when the candidate parses, is on the root's host, the root's path
\* (trailing slashes stripped) has a "/" and so a parent-path, and the
\* candidate's path (trailing slashes stripped) equals the parent-path or
\* both contain the keyword; every link Explore processed was accepted or
\* rejected by that rule.
C14_ClassifierRule ==
    /\ \A link \in Candidates : isParentURL(link) = Accepts(hc.RootURL, link)
    /\ \A j \in 1..Len(results) :
          results[j].accepted = Accepts(hc.RootURL, results[j].link)

\* C14 witness: Explore accepted a link by the keyword rule that is not the
\* parent page, and rejected a link on the root's host
C14_Witness ==
    \E j, k \in 1..Len(results) :
        /\ results[j].accepted
        /\ TrimRight(Parse(results[j].link).Path, Slash)
              # ParentPathOf(TrimRight(Parse(hc.RootURL).Path, Slash))
        /\ ~results[k].accepted
        /\ Parse(results[k].link).Host = Parse(hc.RootURL).Host

\* path p extends path q by further segments
Extends(p, q) ==
    Len(p) > Len(q) /\ SubSeq(p, 1, Len(q) + 1) = q \o <<Slash>>

\* the candidate is the parent page of the root or a sibling of the root
ParentOrSibling(root, link) ==
    LET rp == TrimRight(Parse(root).Path, Slash)
        lp == TrimRight(Parse(link).Path, Slash)
    IN  /\ HasSeparator(rp)
        /\ \/ lp = ParentPathOf(rp)
           \/ HasSeparator(lp) /\ ParentPathOf(lp) = ParentPathOf(rp)

\* C15 (as claimed): every accepted candidate is on the root's host and is
\* the root's parent page or a sibling; a candidate whose path extends the
\* root's path is rejected.
C15_OnlyParentOrSibling ==
    \A j \in 1..Len(results) :
        LET link == results[j].link
        IN  /\ results[j].accepted =>
                  /\ Parse(link).Host = Parse(hc.RootURL).Host
                  /\ ParentOrSibling(hc.RootURL, link)
            /\ Extends(Parse(link).Path, TrimRight(Parse(hc.RootURL).Path, Slash)) =>
                  ~results[j].accepted

\* the keyword rule applies to this root
KeywordRoot ==
    /\ HasSeparator(TrimRight(Parse(hc.RootURL).Path, Slash))
    /\ Contains(ParentPathOf(TrimRight(Parse(hc.RootURL).Path, Slash)), Keyword)

\* C15 (amended): every accepted candidate is on the root's host; when the
\* root's parent-path does not contain the keyword, every accepted candidate
\* is the root's parent page and a candidate whose path extends the root's
\* path is rejected; when it does, an accepted candidate is the parent page
\* or a page whose path contains the keyword.
C15_ParentUnlessKeyword ==
    \A j \in 1..Len(results) :
        LET link == results[j].link
            rp   == TrimRight(Parse(hc.RootURL).Path, Slash)
            lp   == TrimRight(Parse(link).Path, Slash)
        IN  /\ Parse(link).Host # Parse(hc.RootURL).Host => ~results[j].accepted
            /\ results[j].accepted =>
                  \/ lp = ParentPathOf(rp)
                  \/ KeywordRoot /\ Contains(lp, Keyword)
            /\ (~KeywordRoot /\ Extends(Parse(link).Path, rp)) => ~results[j].accepted

\* C15 witness: under a root three levels deep, the parent page was
\* accepted and a link on another host with the parent's path was rejected
C15_Witness ==
    /\ ~KeywordRoot
    /\ \E j, k \in 1..Len(results) :
          /\ results[j].accepted
          /\ ~results[k].accepted
          /\ Parse(results[k].link).Host # Parse(hc.RootURL).Host
          /\ Parse(results[k].link).Path = Parse(results[j].link).Path

\* C21 (as claimed): when Explore has returned nil, the tree holds a node,
\* reachable from the root, for every link it accepted.
C21_ExploreAddsAcceptedLinks ==
    (hc.pc \in {"returned", "end"} /\ hc.err = "nil") =>
        \A l \in AcceptedLinks :
            \E n \in Reachable \ {1} : Canonical(String(nodes[n].URL)) = Canonical(l)

-----------------------------------------------------------------------------
(* Further claims about the tree *)

\* C24: an AddURL call returns an error exactly when its URL string does
\* not parse; it then returns no node and leaves every node (its children
\* list included) and the visited set as they were before the call.
C24_UnparsableURLChangesNothing ==
    /\ [](\A u \in TreeURLs, p \in 0..Len(nodes) : AddURL(u, p).err = ~ParseOK(u))
    /\ [][ret'.err => /\ ret'.node = 0
                      /\ nodes' = nodes
                      /\ visited' = visited]_vars

\* C24 witness: the last AddURL call failed on a tree that has a child under
\* the root and a visited key
C24_Witness ==
    /\ ret.err
    /\ Len(nodes[1].Children) >= 1
    /\ visited # {}

\* C22 (as claimed): under a positive MaxDepth, every node reachable from
\* the root has a depth IsAllowedDepth allows.
C22_DepthWithinMaxDepth ==
    maxDepth > 0 => \A n \in Reachable : IsAllowedDepth(nodes[n].Depth)

=============================================================================
